---- MODULE Spec2Model ----
(***************************************************************************)
(* Model of surf-retry's RetryMiddleware (src/src/lib.rs).                 *)
(*                                                                         *)
(* One traversal of RetryMiddleware::handle is a small sequential program  *)
(* with three suspension points (the two `next.run(..).await` calls and    *)
(* the sleep).  Each traversal t has its own locals; the middleware's      *)
(* fields are shared.  Time is counted in ticks, TicksPerSec ticks to the  *)
(* second, so that the truncation of as_secs() is visible.                 *)
(***************************************************************************)
EXTENDS Integers, Sequences, FiniteSets, TLC

\* ------------------------------------------------------------------ bounds
MaxRetriesBound == 3      \* max_retries is drawn from 0..MaxRetriesBound
MaxFallback     == 2      \* fallback_interval is drawn from 1..MaxFallback
MaxRetryAfter   == 2      \* integer Retry-After values are 0..MaxRetryAfter
MaxPolicyTicks  == 2      \* execute_after - now is -1..MaxPolicyTicks ticks
MaxRetriesConc  == 2      \* max_retries is 0..MaxRetriesConc with two traversals
TicksPerSec     == 2      \* clock resolution

\* ------------------------------------------------------------- data values
\* const RETRY_CODES (line 98)
RETRY_CODES_5xx == {429, 408, 503}
RETRY_CODES_only429 == {429}
RETRY_CODES == {429, 408}

\* status codes the server may answer with
StatusCodes == {200, 408, 429, 503}

\* values of the Retry-After header as retry_to_seconds sees them:
\*   none - header absent;  int - a decimal u64;  date - an HTTP-date whose
\*   instant is v ticks on the model clock;  bad - neither of the two
NoHeader == [kind |-> "none", v |-> 0]
HttpDates == {(0 - 1) * TicksPerSec, 2 * TicksPerSec}
HeaderValues ==
    {NoHeader, [kind |-> "bad", v |-> 0]}
      \cup {[kind |-> "int", v |-> n] : n \in 0..MaxRetryAfter}
      \cup {[kind |-> "date", v |-> d] : d \in HttpDates}

\* a surf::Response: its status, its Retry-After header, and the number of
\* the send it answers (its identity)
NoRes == [status |-> 0, retry_after |-> NoHeader, id |-> 0]
Response(st, h, n) == [status |-> st, retry_after |-> h, id |-> n]

\* retry_policies::RetryDecision as use_policy sees it: DoNotRetry, or
\* Retry{execute_after} with d = execute_after - Utc::now() in ticks
DoNotRetry == [retry |-> FALSE, d |-> 0]
Retry(d) == [retry |-> TRUE, d |-> d]
NoDecision == [retry |-> FALSE, d |-> 0 - 9]
Decisions == {DoNotRetry} \cup {Retry(d) : d \in (0 - 1)..MaxPolicyTicks}

\* surf::Result<T>
Ok(v) == [ok |-> TRUE, v |-> v]
Err == [ok |-> FALSE, v |-> 0]
NoResult == [kind |-> "none", res |-> NoRes]

\* Duration::as_secs: whole seconds, the sub-second part is dropped
as_secs(ticks) == ticks \div TicksPerSec

VARIABLES
    max_retries,        \* RetryMiddleware.max_retries
    fallback_interval,  \* RetryMiddleware.fallback_interval
    now,                \* the clock, in ticks; it starts anywhere within
                        \* a second and moves on while a traversal sleeps
    pc,                 \* pc[t]: position of traversal t in handle
    retries,            \* retries[t]: the local `retries`
    res,                \* res[t]: the outer `res` (line 122)
    recv,               \* recv[t]: the response most recently received
    secs,               \* secs[t]: the local `secs`
    wake_at,            \* wake_at[t]: instant the current sleep ends
    sends,              \* sends[t]: calls of next.run so far
    waits,              \* waits[t]: sleeps started so far
    hist,               \* hist[t]: outcome of each send so far, in order:
                        \* the status received, or TransportError
    hdr_used,           \* hdr_used[t]: header line 128 read last
    policy_arg,         \* policy_arg[t]: retry_count of the last use_policy
    decision,           \* decision[t]: what should_retry answered last
    consults,           \* consults[t]: calls of use_policy so far
    result              \* result[t]: what handle returned

vars == <<max_retries, fallback_interval, now, pc, retries, res, recv, secs,
          wake_at, sends, waits, hist, hdr_used, policy_arg, decision,
          consults, result>>

config == <<max_retries, fallback_interval>>

Traversals == DOMAIN pc
\* ---------------------------------------------------------- pure functions
\* the `if secs < 1 { secs = 1; }` of retry_to_seconds (lines 110-112)
clamp_none(s) == s
clamp(s) == IF s < 1 THEN 1 ELSE s

\* fn retry_to_seconds(header) -> Result<u64>, with SystemTime::now() as
\* the argument sys_time
retry_to_seconds(header, sys_time) ==
    IF header.kind = "int"
      THEN Ok(clamp(header.v))
      ELSE IF header.kind = "date"
             THEN IF header.v >= sys_time
                    THEN Ok(clamp(as_secs(header.v - sys_time)))
                    ELSE Err
             ELSE Err

\* fn use_policy(&self, retry_count) -> u64, with the answer of
\* self.policy.should_retry(retry_count) as the argument should_retry
use_policy_declined_zero(should_retry) ==
    IF should_retry.retry
      THEN IF should_retry.d >= 0
             THEN as_secs(should_retry.d)
             ELSE fallback_interval
      ELSE 0
use_policy_negative_zero(should_retry) ==
    IF should_retry.retry
      THEN IF should_retry.d >= 0
             THEN as_secs(should_retry.d)
             ELSE 0
      ELSE fallback_interval
use_policy(should_retry) ==
    IF should_retry.retry
      THEN IF should_retry.d >= 0
             THEN as_secs(should_retry.d)
             ELSE fallback_interval
      ELSE fallback_interval

\* RETRY_CODES.contains(&res.status())
is_retryable(r) == r.status \in RETRY_CODES

\* the response whose Retry-After header line 128 reads: `res` there is the
\* binding of line 122; the `let res` of line 154 comes later in the block
\* and goes out of scope at the end of each iteration
header_source(t) == res[t]

\* the value `Ok(res)` of line 160 returns: the binding of line 122
final_res(t) == res[t]

\* the value `Ok(res)` of line 156 returns: the binding of line 154, r
body_res_outer(t, r) == res[t]
body_res(t, r) == r

\* the condition of `while retries < self.max_retries` (line 124)
loop_condition_le(t) == retries[t] <= max_retries
loop_condition_once(t) == retries[t] < max_retries \/ retries[t] = 0
loop_condition(t) == retries[t] < max_retries

\* the argument of `self.use_policy(retries)` (lines 134 and 138), n being
\* `retries` after the increment of line 125
retry_count_before(n) == n - 1
retry_count(n) == n

\* a transport failure is written into hist as status 0
TransportError == 0

\* ------------------------------------------------------------------- state
InitFor(T) ==
    /\ max_retries \in 0..MaxRetriesBound
    /\ fallback_interval \in 1..MaxFallback
    /\ now \in 0..(TicksPerSec - 1)
    /\ pc = [t \in T |-> "start"]
    /\ retries = [t \in T |-> 0]
    /\ res = [t \in T |-> NoRes]
    /\ recv = [t \in T |-> NoRes]
    /\ secs = [t \in T |-> 0]
    /\ wake_at = [t \in T |-> 0]
    /\ sends = [t \in T |-> 0]
    /\ waits = [t \in T |-> 0]
    /\ hist = [t \in T |-> << >>]
    /\ hdr_used = [t \in T |-> NoHeader]
    /\ policy_arg = [t \in T |-> 0]
    /\ decision = [t \in T |-> NoDecision]
    /\ consults = [t \in T |-> 0]
    /\ result = [t \in T |-> NoResult]

Init == InitFor({1})

\* ----------------------------------------------------------------- actions
\* lines 119-122: retries = 0, clone the request, call next.run
HandleStart_shared_counter(t) ==
    /\ pc[t] = "start"
    /\ retries' = [u \in DOMAIN retries |-> 0]
    /\ sends' = [sends EXCEPT ![t] = @ + 1]
    /\ pc' = [pc EXCEPT ![t] = "await1"]
    /\ UNCHANGED <<config, now, res, recv, secs, wake_at, waits, hist,
                   hdr_used, policy_arg, decision, consults, result>>
HandleStart(t) ==
    /\ pc[t] = "start"
    /\ retries' = [retries EXCEPT ![t] = 0]
    /\ sends' = [sends EXCEPT ![t] = @ + 1]
    /\ pc' = [pc EXCEPT ![t] = "await1"]
    /\ UNCHANGED <<config, now, res, recv, secs, wake_at, waits, hist,
                   hdr_used, policy_arg, decision, consults, result>>

\* line 122 yields a response, line 123 classifies it; a response that is
\* not retryable goes straight to line 160
NextRun1Ok(t, st, h) ==
    /\ pc[t] = "await1"
    /\ LET r == Response(st, h, sends[t]) IN
         /\ res' = [res EXCEPT ![t] = r]
         /\ recv' = [recv EXCEPT ![t] = r]
         /\ hist' = [hist EXCEPT ![t] = Append(@, st)]
         /\ IF is_retryable(r)
              THEN /\ pc' = [pc EXCEPT ![t] = "while"]
                   /\ UNCHANGED result
              ELSE /\ pc' = [pc EXCEPT ![t] = "done"]
                   /\ result' = [result EXCEPT ![t] = [kind |-> "ok", res |-> r]]
    /\ UNCHANGED <<config, now, retries, secs, wake_at, sends, waits, hdr_used,
                   policy_arg, decision, consults>>

\* line 122: next.run fails, `?` returns the error
NextRun1Err(t) ==
    /\ pc[t] = "await1"
    /\ pc' = [pc EXCEPT ![t] = "done"]
    /\ result' = [result EXCEPT ![t] = [kind |-> "err", res |-> NoRes]]
    /\ hist' = [hist EXCEPT ![t] = Append(@, TransportError)]
    /\ UNCHANGED <<config, now, retries, res, recv, secs, wake_at, sends,
                   waits, hdr_used, policy_arg, decision, consults>>

\* lines 124-151: the loop condition holds; count the retry, resolve secs
\* and start the sleep.  should_retry is what the policy would answer.
WhileEnter(t, should_retry) ==
    /\ pc[t] = "while"
    /\ loop_condition(t)
    /\ LET n == retries[t] + 1
           retry_after == header_source(t).retry_after
           parsed == retry_to_seconds(retry_after, now)
           from_header == retry_after.kind # "none" /\ parsed.ok
           s == IF from_header THEN parsed.v ELSE use_policy(should_retry)
       IN
         /\ retries' = [retries EXCEPT ![t] = n]
         /\ hdr_used' = [hdr_used EXCEPT ![t] = retry_after]
         /\ secs' = [secs EXCEPT ![t] = s]
         /\ wake_at' = [wake_at EXCEPT ![t] = now + s * TicksPerSec]
         /\ IF from_header
              THEN UNCHANGED <<policy_arg, decision, consults>>
              ELSE /\ policy_arg' = [policy_arg EXCEPT ![t] = retry_count(n)]
                   /\ decision' = [decision EXCEPT ![t] = should_retry]
                   /\ consults' = [consults EXCEPT ![t] = @ + 1]
    /\ waits' = [waits EXCEPT ![t] = @ + 1]
    /\ pc' = [pc EXCEPT ![t] = "sleep"]
    /\ UNCHANGED <<config, now, res, recv, sends, hist, result>>

\* line 124 fails, line 160 returns Ok(res)
WhileExit(t) ==
    /\ pc[t] = "while"
    /\ ~loop_condition(t)
    /\ pc' = [pc EXCEPT ![t] = "done"]
    /\ result' = [result EXCEPT ![t] = [kind |-> "ok", res |-> final_res(t)]]
    /\ UNCHANGED <<config, now, retries, res, recv, secs, wake_at, sends,
                   waits, hist, hdr_used, policy_arg, decision, consults>>

\* the sleep is over: nothing reads `secs`, or what it was resolved from,
\* any more
EndOfSleep(t) ==
    /\ secs' = [secs EXCEPT ![t] = 0]
    /\ wake_at' = [wake_at EXCEPT ![t] = 0]
    /\ hdr_used' = [hdr_used EXCEPT ![t] = NoHeader]
    /\ policy_arg' = [policy_arg EXCEPT ![t] = 0]
    /\ decision' = [decision EXCEPT ![t] = NoDecision]

\* lines 148/151 resume once the duration has passed; lines 153-154 clone
\* the request and call next.run again
SleepDone(t) ==
    /\ pc[t] = "sleep"
    /\ now' = IF now < wake_at[t] THEN wake_at[t] ELSE now
    /\ sends' = [sends EXCEPT ![t] = @ + 1]
    /\ pc' = [pc EXCEPT ![t] = "await2"]
    /\ EndOfSleep(t)
    /\ UNCHANGED <<config, retries, res, recv, waits, hist, consults, result>>

\* line 154 yields a response bound to the loop body's own `res`; lines
\* 155-157 return it unless it is retryable, otherwise the body ends and
\* that binding is dropped
NextRun2Ok(t, st, h) ==
    /\ pc[t] = "await2"
    /\ LET r == Response(st, h, sends[t]) IN
         /\ recv' = [recv EXCEPT ![t] = r]
         /\ hist' = [hist EXCEPT ![t] = Append(@, st)]
         /\ IF ~is_retryable(r)
              THEN /\ pc' = [pc EXCEPT ![t] = "done"]
                   /\ result' = [result EXCEPT ![t] =
                                    [kind |-> "ok", res |-> body_res(t, r)]]
              ELSE /\ pc' = [pc EXCEPT ![t] = "while"]
                   /\ UNCHANGED result
    /\ UNCHANGED <<config, now, retries, res, secs, wake_at, sends, waits,
                   hdr_used, policy_arg, decision, consults>>

\* line 154: next.run fails, `?` returns the error
NextRun2Err_retried(t) ==
    /\ pc[t] = "await2"
    /\ pc' = [pc EXCEPT ![t] = "while"]
    /\ hist' = [hist EXCEPT ![t] = Append(@, TransportError)]
    /\ UNCHANGED <<config, now, retries, res, recv, secs, wake_at, sends,
                   waits, hdr_used, policy_arg, decision, consults, result>>
NextRun2Err(t) ==
    /\ pc[t] = "await2"
    /\ pc' = [pc EXCEPT ![t] = "done"]
    /\ result' = [result EXCEPT ![t] = [kind |-> "err", res |-> NoRes]]
    /\ hist' = [hist EXCEPT ![t] = Append(@, TransportError)]
    /\ UNCHANGED <<config, now, retries, res, recv, secs, wake_at, sends,
                   waits, hdr_used, policy_arg, decision, consults>>

\* the caller drops the future of handle at one of its await points
Cancel_returns_response(t) ==
    /\ pc[t] \in {"await1", "sleep", "await2"}
    /\ pc' = [pc EXCEPT ![t] = "done"]
    /\ result' = [result EXCEPT ![t] = [kind |-> "ok", res |-> res[t]]]
    /\ UNCHANGED <<config, now, retries, res, recv, secs, wake_at, sends,
                   waits, hist, hdr_used, policy_arg, decision, consults>>
Cancel(t) ==
    /\ pc[t] \in {"await1", "sleep", "await2"}
    /\ pc' = [pc EXCEPT ![t] = "dropped"]
    /\ UNCHANGED <<config, now, retries, res, recv, secs, wake_at, sends,
                   waits, hist, hdr_used, policy_arg, decision, consults,
                   result>>

Next ==
    \E t \in Traversals :
        \/ HandleStart(t)
        \/ \E st \in StatusCodes, h \in HeaderValues :
               NextRun1Ok(t, st, h)
        \/ NextRun1Err(t)
        \/ \E d \in Decisions : WhileEnter(t, d)
        \/ WhileExit(t)
        \/ SleepDone(t)
        \/ \E st \in StatusCodes, h \in HeaderValues :
               NextRun2Ok(t, st, h)
        \/ NextRun2Err(t)
        \/ Cancel(t)

Spec == Init /\ [][Next]_vars

\* two traversals through one middleware instance, the server and the
\* policy answering from smaller sets
ConcStatusCodes == {200, 429}
ConcHeaderValues == {NoHeader, [kind |-> "int", v |-> 1]}
ConcDecisions == {DoNotRetry, Retry(TicksPerSec)}

InitConc == InitFor({1, 2}) /\ max_retries <= MaxRetriesConc

NextConc ==
    \E t \in Traversals :
        \/ HandleStart(t)
        \/ \E st \in ConcStatusCodes, h \in ConcHeaderValues :
               NextRun1Ok(t, st, h)
        \/ NextRun1Err(t)
        \/ \E d \in ConcDecisions : WhileEnter(t, d)
        \/ WhileExit(t)
        \/ SleepDone(t)
        \/ \E st \in ConcStatusCodes, h \in ConcHeaderValues :
               NextRun2Ok(t, st, h)
        \/ NextRun2Err(t)
        \/ Cancel(t)

SpecConc == InitConc /\ [][NextConc]_vars

\* ------------------------------------------------------------- type sanity
TypeOK ==
    /\ max_retries \in 0..MaxRetriesBound
    /\ fallback_interval \in 1..MaxFallback
    /\ now \in Nat
    /\ \A t \in Traversals :
         /\ pc[t] \in {"start", "await1", "while", "sleep", "await2",
                       "done", "dropped"}
         /\ retries[t] \in Nat
         /\ secs[t] \in Nat
         /\ sends[t] \in Nat
         /\ result[t].kind \in {"none", "ok", "err"}

\* ------------------------------------------------------------------ claims
\* what the claims call retryable, spelled out rather than read off
\* RETRY_CODES
Retryable429or408(st) == st \in {429, 408}

\* the first k outcomes of traversal t are all retryable statuses
FirstKRetryable(t, k) ==
    /\ Len(hist[t]) >= k
    /\ \A i \in 1..k : Retryable429or408(hist[t][i])

Returned(t) == pc[t] = "done" /\ result[t].kind = "ok"

\* C1: one traversal of handle performs at most max_retries + 1 sends,
\* whatever the underlying send answers.
C1_BoundedSends ==
    \A t \in Traversals : sends[t] <= max_retries + 1

\* C1 witness: a traversal that used up all its retries, with at least two
\* re-sends.
C1_Witness ==
    \E t \in Traversals :
        /\ max_retries >= 2
        /\ sends[t] = max_retries + 1
        /\ Returned(t)

\* C2 (as claimed): when the ceiling is reached, i.e. max_retries re-sends
\* were made and every response was retryable, handle returns the response
\* of the final send.
C2_ReturnsLastAtCeiling ==
    \A t \in Traversals :
        ( /\ Returned(t)
          /\ sends[t] = max_retries + 1
          /\ FirstKRetryable(t, max_retries + 1) )
        => result[t].res = recv[t]

\* C4: a first response whose status is not 429 or 408 means exactly one
\* send, no wait, no consultation of the policy, and that response, as
\* received, is what handle returns.
C4_NonRetryableShortCircuit ==
    \A t \in Traversals :
        (Len(hist[t]) >= 1 /\ hist[t][1] # TransportError
                           /\ ~Retryable429or408(hist[t][1]))
        => /\ sends[t] = 1
           /\ waits[t] = 0
           /\ consults[t] = 0
           /\ Returned(t)
           /\ result[t].res = recv[t]
           /\ result[t].res.id = 1
           /\ result[t].res.status = hist[t][1]

\* C4 witness: a 503 carrying a Retry-After header came back first, and was
\* returned, although retries were available.
C4_Witness ==
    \E t \in Traversals :
        /\ max_retries >= 1
        /\ Returned(t)
        /\ result[t].res.status = 503
        /\ result[t].res.retry_after.kind = "int"
        /\ sends[t] = 1

\* C5: with max_retries = 0 exactly one send occurs and its response is
\* returned, retryable or not, with or without a Retry-After header.
C5_ZeroRetries ==
    max_retries = 0 =>
        \A t \in Traversals :
            /\ sends[t] <= 1
            /\ waits[t] = 0
            /\ pc[t] \notin {"sleep", "await2"}
            /\ Returned(t) => /\ sends[t] = 1
                              /\ result[t].res = recv[t]
                              /\ result[t].res.id = 1
                              /\ result[t].res.status = hist[t][1]

\* C5 witness: max_retries = 0 and a 429 with Retry-After was returned.
C5_Witness ==
    \E t \in Traversals :
        /\ max_retries = 0
        /\ Returned(t)
        /\ result[t].res.status = 429
        /\ result[t].res.retry_after.kind = "int"

\* C6: k retryable answers followed by a non-retryable answer on call
\* k + 1, with k <= max_retries, means exactly k + 1 sends, and the
\* response of send k + 1 is returned.
C6_RetryUntilNonRetryable ==
    \A t \in Traversals : \A k \in 0..max_retries :
        ( /\ FirstKRetryable(t, k)
          /\ Len(hist[t]) >= k + 1
          /\ hist[t][k + 1] # TransportError
          /\ ~Retryable429or408(hist[t][k + 1]) )
        => /\ sends[t] = k + 1
           /\ Len(hist[t]) = k + 1
           /\ Returned(t)
           /\ result[t].res = recv[t]
           /\ result[t].res.id = k + 1
           /\ result[t].res.status = hist[t][k + 1]

\* C6 witness: 429, 429, 200 with max_retries = 3.
C6_Witness ==
    \E t \in Traversals :
        /\ max_retries = 3
        /\ hist[t] = <<429, 429, 200>>
        /\ Returned(t)
        /\ sends[t] = 3

\* the instant at which the delay of the current sleep was resolved
resolved_at(t) == wake_at[t] - secs[t] * TicksPerSec

\* the policy was consulted for the delay of the current sleep
Consulted(t) == policy_arg[t] = retries[t] /\ decision[t] \in Decisions

\* the delay of the policy path, spelled out: the whole seconds of
\* T - now when the policy answers "retry at T" and T - now is not
\* negative, otherwise the fallback interval
PolicyDelay(dec) ==
    IF dec.retry /\ dec.d >= 0 THEN dec.d \div TicksPerSec
                               ELSE fallback_interval

\* a header value that retry_to_seconds cannot turn into a duration at
\* instant at: neither integer nor date, or a date before at
Unusable(h, at) == h.kind = "bad" \/ (h.kind = "date" /\ h.v < at)

\* C3 (as claimed): every wait resolved before a re-send is at least one
\* second, whether it came from the header, the policy or the fallback.
C3_WaitAtLeastOneSecond ==
    \A t \in Traversals : pc[t] = "sleep" => secs[t] >= 1

C9_BadHeaderFallsToPolicy ==
    \A t \in Traversals :
        ( /\ pc[t] = "sleep"
          /\ Unusable(recv[t].retry_after, resolved_at(t)) )
        => /\ Consulted(t)
           /\ secs[t] = PolicyDelay(decision[t])
           /\ result[t].kind # "err"

\* a send of traversal t ended in a transport failure
Failed(t) == Len(hist[t]) >= 1 /\ hist[t][Len(hist[t])] = TransportError

\* a failed send is the last outcome, and the error has been returned
FailedIsReturned(t) ==
    /\ Failed(t) => /\ pc[t] = "done"
                    /\ result[t].kind = "err"
                    /\ sends[t] = Len(hist[t])
    /\ TransportError \in {hist[t][i] : i \in 1..Len(hist[t])} => Failed(t)

\* C10: once a send has failed, handle has returned the error, and no send,
\* wait or consultation of the policy follows.
C10_TransportErrorIsTerminal ==
    [][\A t \in Traversals :
         /\ FailedIsReturned(t)
         /\ FailedIsReturned(t)'
         /\ Failed(t) => /\ sends'[t] = sends[t]
                         /\ waits'[t] = waits[t]
                         /\ consults'[t] = consults[t]
                         /\ pc'[t] = pc[t]
                         /\ result'[t] = result[t]]_vars

\* C10 witness: the second re-send failed while a retry was still left.
C10_Witness ==
    \E t \in Traversals :
        /\ Failed(t)
        /\ sends[t] = 3
        /\ retries[t] < max_retries
        /\ result[t].kind = "err"

\* the outcome of the latest send of traversal t
LastOutcome(t) == hist[t][Len(hist[t])]

\* C11: a response is retried exactly when its status is 429 or 408: any
\* other status, on the first send or on a re-send, ends the loop and is
\* returned; a 429 or 408 with retries left is not returned.
C11_RetryableExactly429And408 ==
    \A t \in Traversals :
        /\ \A i \in 1..Len(hist[t]) :
             (hist[t][i] # TransportError /\ ~Retryable429or408(hist[t][i]))
             => /\ i = Len(hist[t])
                /\ Returned(t)
                /\ result[t].res = recv[t]
                /\ result[t].res.id = i
                /\ result[t].res.status = hist[t][i]
        /\ ( /\ Len(hist[t]) >= 1
             /\ Len(hist[t]) <= max_retries
             /\ Retryable429or408(LastOutcome(t)) )
           => /\ pc[t] \in {"while", "sleep", "await2", "dropped"}
              /\ result[t].kind = "none"

\* C11 witness: 408 and 429 were retried, the 503 of the second re-send
\* was returned.
C11_Witness ==
    \E t \in Traversals :
        /\ hist[t] = <<408, 429, 503>>
        /\ Returned(t)
        /\ result[t].res.status = 503

\* a sleep resolved from a declining policy lasts the fallback interval
DeclinedWaitsFallback(t) ==
    (pc[t] = "sleep" /\ Consulted(t) /\ decision[t] = DoNotRetry)
    => /\ secs[t] = fallback_interval
       /\ result[t].kind = "none"

\* C12: when the policy path is taken and the policy answers "do not
\* retry", the wait is the fallback interval and the next step of the
\* traversal is the re-send (unless the caller drops it): the decline
\* never ends the loop.
C12_PolicyDeclineStillRetries ==
    [][\A t \in Traversals :
         /\ DeclinedWaitsFallback(t)
         /\ DeclinedWaitsFallback(t)'
         /\ (pc[t] = "sleep" /\ decision[t] = DoNotRetry /\ pc'[t] # pc[t])
              => \/ pc'[t] = "await2" /\ sends'[t] = sends[t] + 1
                 \/ pc'[t] = "dropped"]_vars

\* C12 witness: no header, the policy declined, the traversal sleeps the
\* fallback interval of 2 seconds before its second re-send.
C12_Witness ==
    \E t \in Traversals :
        /\ pc[t] = "sleep"
        /\ hdr_used[t] = NoHeader
        /\ decision[t] = DoNotRetry
        /\ fallback_interval = 2
        /\ secs[t] = 2
        /\ retries[t] = 2

\* C15: the index handed to the policy is the 1-based number of the retry
\* about to be made: k before the k-th re-send, which is the number of
\* sends made so far, never 0 and never the number of the coming send.
C15_PolicyIndexIsRetryNumber ==
    \A t \in Traversals :
        (pc[t] = "sleep" /\ decision[t] \in Decisions)
        => /\ policy_arg[t] >= 1
           /\ policy_arg[t] = waits[t]
           /\ policy_arg[t] = sends[t]
           /\ policy_arg[t] = Len(hist[t])

\* C15 witness: the policy is consulted before the third re-send.
C15_Witness ==
    \E t \in Traversals :
        /\ pc[t] = "sleep"
        /\ decision[t] \in Decisions
        /\ policy_arg[t] = 3
        /\ sends[t] = 3

\* C16: the attempt counter stays within 0..max_retries, is 0 until the
\* first retry, and every traversal that got anywhere has sent at least
\* once; the first send is not counted by the counter.
C16_CounterWithinBounds ==
    \A t \in Traversals :
        /\ retries[t] >= 0
        /\ retries[t] <= max_retries
        /\ pc[t] = "start" => retries[t] = 0 /\ sends[t] = 0
        /\ pc[t] # "start" => sends[t] >= 1
        /\ pc[t] \in {"await1", "while", "await2", "done"}
             => retries[t] = sends[t] - 1
        /\ pc[t] = "sleep" => retries[t] = sends[t]

\* C16 witness: the counter has reached max_retries = 3 and the traversal
\* returned.
C16_Witness ==
    \E t \in Traversals :
        /\ max_retries = 3
        /\ retries[t] = 3
        /\ sends[t] = 4
        /\ pc[t] = "done"

\* C18 (as claimed): the delay before a re-send is resolved from the
\* Retry-After header of the most recent response.
C18_DelayFromLatestResponse ==
    \A t \in Traversals :
        pc[t] = "sleep" => hdr_used[t] = recv[t].retry_after

\* C19: when the header the resolver reads is absent or unusable, the
\* delay is the whole seconds of T - now if the policy answers "retry at
\* T" with T - now not negative, otherwise the fallback interval; no error
\* comes out of it.
C19_PolicyPathDelay ==
    \A t \in Traversals :
        ( /\ pc[t] = "sleep"
          /\ \/ hdr_used[t].kind = "none"
             \/ Unusable(hdr_used[t], resolved_at(t)) )
        => /\ Consulted(t)
           /\ secs[t] = PolicyDelay(decision[t])
           /\ result[t].kind = "none"

\* C19 witness: no header, the policy's instant already lies in the past,
\* the delay is the fallback interval of 2 seconds.
C19_Witness ==
    \E t \in Traversals :
        /\ pc[t] = "sleep"
        /\ hdr_used[t] = NoHeader
        /\ decision[t] = Retry(0 - 1)
        /\ fallback_interval = 2
        /\ secs[t] = 2

\* waits against sends at each position of a traversal
WaitsMatchSends(t) ==
    /\ pc[t] = "start" => sends[t] = 0 /\ waits[t] = 0
    /\ pc[t] \in {"await1", "while", "await2", "done"}
         => waits[t] = sends[t] - 1
    /\ pc[t] = "sleep"
         => /\ waits[t] = sends[t]
            /\ Len(hist[t]) = sends[t]
            /\ Retryable429or408(LastOutcome(t))

\* C20: sends and waits alternate.  Each send after the first is made by
\* a traversal that is suspended in its sleep; a sleep starts only after a
\* 429 or 408 while the counter is below max_retries; so a traversal that
\* is not asleep has waited once less than it has sent.
C20_SendsAndWaitsAlternate ==
    [][\A t \in Traversals :
         /\ WaitsMatchSends(t)
         /\ WaitsMatchSends(t)'
         /\ (sends'[t] # sends[t] /\ sends[t] >= 1)
              => /\ pc[t] = "sleep"
                 /\ sends'[t] = sends[t] + 1
                 /\ waits'[t] = waits[t]
         /\ waits'[t] # waits[t]
              => /\ waits'[t] = waits[t] + 1
                 /\ sends'[t] = sends[t]
                 /\ pc'[t] = "sleep"
                 /\ retries[t] < max_retries
                 /\ Retryable429or408(LastOutcome(t))]_vars

\* C20 witness: three sends and two waits, and a response was returned.
C20_Witness ==
    \E t \in Traversals :
        /\ Returned(t)
        /\ sends[t] = 3
        /\ waits[t] = 2

\* a dropped traversal has returned nothing
DroppedReturnsNothing(t) == pc[t] = "dropped" => result[t].kind = "none"

\* C13: a traversal dropped while it sleeps makes no further send and
\* never returns a response: it leaves the sleep either by waking up into
\* the re-send or by being dropped, and once dropped nothing of it moves.
C13_CancelWhileWaitingAborts ==
    [][\A t \in Traversals :
         /\ DroppedReturnsNothing(t)
         /\ DroppedReturnsNothing(t)'
         /\ (pc[t] = "sleep" /\ pc'[t] # "sleep")
              => \/ pc'[t] = "await2"
                 \/ /\ pc'[t] = "dropped"
                    /\ sends'[t] = sends[t]
                    /\ result'[t] = result[t]
         /\ pc[t] = "dropped"
              => /\ pc'[t] = "dropped"
                 /\ sends'[t] = sends[t]
                 /\ waits'[t] = waits[t]
                 /\ result'[t] = result[t]]_vars

\* C13 witness: a traversal dropped during its second sleep; it has sent
\* twice and slept twice.
C13_Witness ==
    \E t \in Traversals :
        /\ pc[t] = "dropped"
        /\ waits[t] = 2
        /\ sends[t] = 2
        /\ result[t].kind = "none"

\* everything traversal t owns
Locals(t) ==
    <<pc[t], retries[t], res[t], recv[t], secs[t], wake_at[t], sends[t],
      waits[t], hist[t], hdr_used[t], policy_arg[t], decision[t],
      consults[t], result[t]>>

\* the bound and the counter of one traversal
OwnBound(t) ==
    /\ sends[t] <= max_retries + 1
    /\ retries[t] <= max_retries
    /\ pc[t] \in {"await1", "while", "await2", "done"}
         => retries[t] = sends[t] - 1
    /\ Returned(t) => result[t].res.id \in 1..sends[t]

\* C17: with two traversals interleaved on one middleware, each keeps to
\* its own bound of max_retries + 1 sends with its own counter and result,
\* a step of one leaves everything the other owns untouched, and no step
\* changes max_retries or fallback_interval.
C17_TraversalsIndependent ==
    [][/\ max_retries' = max_retries
       /\ fallback_interval' = fallback_interval
       /\ \A t \in Traversals : OwnBound(t) /\ OwnBound(t)'
       /\ \A t, u \in Traversals :
            (t # u /\ Locals(t)' # Locals(t)) => Locals(u)' = Locals(u)]_vars

\* C17 witness: both traversals are asleep at once, one before its first
\* re-send and the other before its second.
C17_Witness ==
    /\ Traversals = {1, 2}
    /\ pc[1] = "sleep" /\ pc[2] = "sleep"
    /\ retries[1] = 1 /\ retries[2] = 2
====
